---- MODULE Spec2Model ----
(***************************************************************************)
(* The social network backend.  Reactions: the posts and post_reactions    *)
(* tables, create_post, and the like / unlike request handlers             *)
(* (routes/posts.py calling repository/posts.py).  Every request runs in   *)
(* its own database session (one transaction, READ COMMITTED): its two     *)
(* SELECTs each see the rows committed so far, and its writes reach the    *)
(* tables when db.commit() flushes and commits them; a handler is followed *)
(* from one await on the database to the next.  Analytics: the             *)
(* per-day aggregation of a post's reactions (routes/analytics.py,         *)
(* repository/analytics.py).  Comments: create_comment and update_comment. *)
(* Accounts: signup, email confirmation, login, refresh of the token and   *)
(* reset of the password (routes/auth.py, routes/users.py,                 *)
(* repository/users.py).                                                   *)
(***************************************************************************)
EXTENDS Integers, Sequences, FiniteSets, TLC

\* Bounds of the model.
MaxUsers == 2
MaxPosts == 2
MaxCalls == 3
MaxDay == 2
MaxRows == 2
MaxDrift == 1
MaxSerialCalls == 2
MaxComments == 2
MaxAccounts == 2
MaxSignups == 2
MaxTokens == 3
MaxSessions == 2
MaxCommentCalls == 2
MaxCommentDay == 1
MaxHolders == 1

Users == 1..MaxUsers
PostIds == 1..MaxPosts
Calls == 1..MaxCalls
Sessions == 1..MaxSessions
CommentCalls == 1..MaxCommentCalls
Reactions == {"like", "dislike"}

\* The absent row / object (Python None).
None == [id |-> 0]

ALREADY_LIKED == "User has already liked this post"
ALREADY_UNLIKED == "User has already unliked this post"
POST_NOT_FOUND == "Post not found"
NOT_ACCESS_ANALYTICS == "Unauthorized access: User does not own the post."
INVALID_DATE_RANGE == "date_from must be before date_to"
\* The body of the answer to a request whose handler raised an exception that
\* no handler is registered for.
INTERNAL_SERVER_ERROR == "Internal Server Error"
ACCOUNT_EXIST == "Account already exists"
INVALID_REFRESH_TOKEN == "Invalid refresh token"
INVALID_CONFIRMATION_TOKEN == "Verification error"
EMAIL_CONFIRMED == "Email confirmed"
COMMENT_UPDATED == "Comment description is successfully changed."
COMMENT_NOT_FOUND == "Comment not found or doesn't belong to the current user"
USER_NOT_FOUND == "User not found"
PASSWORD_RESET_SUCCESS == "Password reset successfully"

VARIABLES
    posts,              \* table posts: row i has id i
    post_reactions,     \* table post_reactions: row i has id i
    pc,                 \* per request: where the handler stands
    request,            \* per request: post_id, user, reaction asked for
    existing_reaction,  \* per request: what get_post_reaction returned
    post,               \* per request: the Post object get_post_by_id loaded
    lookups,            \* per request: how many times get_post_reaction ran
    log,                \* completed requests, in order of completion
    analytics,          \* the last analytics request and its answer
    now,                \* the database clock
    comments,           \* table comments: row i has id i
    comment_calls,      \* per /comments request being served: its locals
    comment_answer,     \* the last PUT /comments/update request and its answer
    users,              \* table users: row i has id i
    signups,            \* per signup request: the user_data of a request that
                        \* has looked the email up and not yet inserted
    issued,             \* the refresh tokens issued so far: token n is for issued[n]
    sessions,           \* per /auth or /users request being served: its locals
    auth_answer         \* the last /auth or /users request and its answer

commentVars == <<comments, comment_calls, comment_answer>>
authVars == <<users, signups, issued, sessions, auth_answer>>

vars == <<posts, post_reactions, pc, request, existing_reaction, post, lookups, log,
          analytics, now, commentVars, authVars>>

\* What the tables hold about one post: its row (None when there is no such
\* post) and the set of its reaction rows.
View(tbl, rows, post_id) ==
    [post |-> IF post_id \in 1..Len(tbl) THEN tbl[post_id] ELSE None,
     reactions |-> {[id |-> i] @@ rows[i] : i \in {j \in 1..Len(rows) : rows[j].post_id = post_id}}]

\* The number of requests that have completed.
completed == Cardinality({c \in Calls : pc[c] = "done"})

\* The log keeps the last two completed requests.
Logged(entry) == IF Len(log) < 2 THEN Append(log, entry) ELSE Append(Tail(log), entry)

----------------------------------------------------------------------------
\* Tables and queries

\* Post(post=content, user_id=user.id): likes and dislikes default to 0.
NewPost(user) == [user_id |-> user, likes |-> 0, dislikes |-> 0]

\* PostReaction(post_id=..., user_id=..., reaction=...)
PostReaction(post_id, user_id, reaction) ==
    [post_id |-> post_id, user_id |-> user_id, reaction |-> reaction]

\* The row with primary key i as the session loads it.
Loaded(rows, i) == [id |-> i] @@ rows[i]

\* select(PostReaction).where(user_id == ..., post_id == ...) ... .first()
get_post_reaction(rows, post_id, user_id) ==
    LET hits == {i \in 1..Len(rows) :
                    rows[i].user_id = user_id /\ rows[i].post_id = post_id}
    IN  IF hits = {} THEN None
        ELSE Loaded(rows, CHOOSE i \in hits : \A j \in hits : i <= j)

\* get_post_by_id as it would be if the query lacked its where clause and
\* took the first post.
get_post_by_idUnfiltered(tbl, post_id) ==
    IF post_id \in 1..Len(tbl) THEN [id |-> post_id] @@ tbl[post_id]
    ELSE IF Len(tbl) > 0 THEN [id |-> 1] @@ tbl[1] ELSE None

\* select(Post).where(Post.id == post_id) ... .one(); None stands for NoResultFound.
get_post_by_id(tbl, post_id) ==
    IF post_id \in 1..Len(tbl) THEN Loaded(tbl, post_id) ELSE None

\* UniqueConstraint as it would answer if the constraint covered the kind of
\* reaction too.
UniqueViolationPerKind(rows, row) ==
    \E i \in 1..Len(rows) :
        /\ rows[i].post_id = row.post_id /\ rows[i].user_id = row.user_id
        /\ rows[i].reaction = row.reaction

\* UniqueConstraint as it would answer if the constraint covered the day of
\* creation too.
UniqueViolationPerDay(rows, row) ==
    \E i \in 1..Len(rows) :
        /\ rows[i].post_id = row.post_id /\ rows[i].user_id = row.user_id
        /\ rows[i].created_at.date = row.created_at.date

\* UniqueConstraint as a table without the constraint would answer.
UniqueViolationDropped(rows, row) == FALSE

\* UniqueConstraint('post_id', 'user_id'): would inserting row break it?
UniqueViolation(rows, row) ==
    \E i \in 1..Len(rows) :
        rows[i].post_id = row.post_id /\ rows[i].user_id = row.user_id

----------------------------------------------------------------------------
\* update_or_create_reaction: what it does to the session.  update is the id
\* the UPDATE statement names (0: no UPDATE), add the object given to db.add
\* (None: nothing added), post the Post object after the += / -=, dirty the
\* attributes of it that were assigned.
update_or_create_reaction(reaction, new_reaction, post_obj) ==
    IF reaction # None
    THEN [update |-> reaction.id,
          add    |-> None,
          post   |-> IF new_reaction = "like"
                     THEN [post_obj EXCEPT !.likes = @ + 1, !.dislikes = @ - 1]
                     ELSE [post_obj EXCEPT !.likes = @ - 1, !.dislikes = @ + 1],
          dirty  |-> {"likes", "dislikes"}]
    ELSE [update |-> 0,
          add    |-> PostReaction(post_obj.id, post_obj.user_id, new_reaction),
          post   |-> IF new_reaction = "like"
                     THEN [post_obj EXCEPT !.likes = @ + 1]
                     ELSE [post_obj EXCEPT !.dislikes = @ + 1],
          dirty  |-> IF new_reaction = "like" THEN {"likes"} ELSE {"dislikes"}]

\* FlushPost as it would be if the UPDATE named the first post.
FlushPostFirst(tbl, post_obj, dirty) ==
    [tbl EXCEPT ![1] =
        [@ EXCEPT !.likes    = IF "likes" \in dirty THEN post_obj.likes ELSE @,
                  !.dislikes = IF "dislikes" \in dirty THEN post_obj.dislikes ELSE @]]

\* The flush of the Post object: UPDATE posts SET <dirty attributes> WHERE id = ...
FlushPost(tbl, post_obj, dirty) ==
    [tbl EXCEPT ![post_obj.id] =
        [@ EXCEPT !.likes    = IF "likes" \in dirty THEN post_obj.likes ELSE @,
                  !.dislikes = IF "dislikes" \in dirty THEN post_obj.dislikes ELSE @]]

\* FlushReactions as it would be if a changed reaction were written as a new
\* row instead of an UPDATE of the row it was read from.
FlushReactionsAsNewRow(rows, unit, new_reaction) ==
    IF unit.update # 0
    THEN Append(rows, [rows[unit.update] EXCEPT !.reaction = new_reaction])
    ELSE Append(rows, unit.add)

\* FlushReactions as it would be if asking for the opposite reaction removed
\* the row it was read from.
FlushReactionsRemoving(rows, unit, new_reaction) ==
    IF unit.update # 0
    THEN [i \in 1..(Len(rows) - 1) |-> IF i < unit.update THEN rows[i] ELSE rows[i + 1]]
    ELSE Append(rows, unit.add)

\* FlushReactions as it would be if the UPDATE set created_at as well.
FlushReactionsRestamping(rows, unit, new_reaction) ==
    IF unit.update # 0
    THEN [rows EXCEPT ![unit.update].reaction = new_reaction,
                      ![unit.update].created_at = now]
    ELSE Append(rows, unit.add)

\* The UPDATE statement and the flush of the added object on post_reactions.
FlushReactions(rows, unit, new_reaction) ==
    IF unit.update # 0
    THEN [rows EXCEPT ![unit.update].reaction = new_reaction]
    ELSE Append(rows, unit.add)

\* AlreadyDetail as it would be with the two routes' messages exchanged.
AlreadyDetailExchanged(new_reaction) ==
    IF new_reaction = "like" THEN ALREADY_UNLIKED ELSE ALREADY_LIKED

\* The detail of the 400 answer of each route.
AlreadyDetail(new_reaction) ==
    IF new_reaction = "like" THEN ALREADY_LIKED ELSE ALREADY_UNLIKED

----------------------------------------------------------------------------
Init ==
    /\ posts = <<>>
    /\ post_reactions = <<>>
    /\ pc = [c \in Calls |-> "idle"]
    /\ request = [c \in Calls |-> None]
    /\ existing_reaction = [c \in Calls |-> None]
    /\ post = [c \in Calls |-> None]
    /\ lookups = [c \in Calls |-> 0]
    /\ log = <<>>
    /\ analytics = None
    /\ now = [date |-> 1, hour |-> 0]
    /\ comments = <<>>
    /\ comment_calls = [k \in CommentCalls |-> None]
    /\ comment_answer = None
    /\ users = <<>>
    /\ signups = [c \in 1..MaxSignups |-> None]
    /\ issued = <<>>
    /\ sessions = [s \in Sessions |-> None]
    /\ auth_answer = None

\* create_post: add, commit, refresh.
create_post(user) ==
    /\ Len(posts) < MaxPosts
    /\ posts' = Append(posts, NewPost(user))
    /\ UNCHANGED <<post_reactions, pc, request, existing_reaction, post, lookups, log,
                   analytics, now, commentVars, authVars>>

\* A request reaches POST /posts/like or POST /posts/unlike and runs up to
\* existing_reaction = await get_post_reaction(post_id, user.id, db).
\* Of the requests not yet made, the one with the lowest number is next.
GetPostReaction(c, post_id, user, new_reaction) ==
    /\ pc[c] = "idle"
    /\ \A d \in Calls : d < c => pc[d] # "idle"
    /\ request' = [request EXCEPT ![c] =
            [post_id |-> post_id, user |-> user, reaction |-> new_reaction,
             began |-> completed, txn_start |-> now]]
    /\ existing_reaction' = [existing_reaction EXCEPT ![c] =
            get_post_reaction(post_reactions, post_id, user)]
    /\ lookups' = [lookups EXCEPT ![c] = @ + 1]
    /\ pc' = [pc EXCEPT ![c] = "get_post_by_id"]
    /\ UNCHANGED <<posts, post_reactions, post, log, analytics, now, commentVars, authVars>>

\* The record of a completed request.
Entry(c, status, detail, integrity_error, after) ==
    [seq |-> completed + 1,
     post_id |-> request[c].post_id,
     user |-> request[c].user,
     reaction |-> request[c].reaction,
     began |-> request[c].began,
     lookups |-> lookups[c],
     status |-> status,
     detail |-> detail,
     integrity_error |-> integrity_error,
     at |-> now,
     before |-> View(posts, post_reactions, request[c].post_id),
     after |-> after]

\* The handler returns: its locals and its session are gone.
Return(c) ==
    /\ pc' = [pc EXCEPT ![c] = "done"]
    /\ request' = [request EXCEPT ![c] = None]
    /\ existing_reaction' = [existing_reaction EXCEPT ![c] = None]
    /\ post' = [post EXCEPT ![c] = None]
    /\ lookups' = [lookups EXCEPT ![c] = 0]
    /\ UNCHANGED <<analytics, now, commentVars, authVars>>

\* Fail as it would be if the session were closed without a rollback and the
\* flushed counters of the Post object stayed in the table.
FailNoRollback(c, status, detail, integrity_error) ==
    /\ log' = Logged(Entry(c, status, detail, integrity_error,
                        View(posts, post_reactions, request[c].post_id)))
    /\ Return(c)
    /\ posts' = IF integrity_error
                THEN LET unit == update_or_create_reaction(existing_reaction[c],
                                    request[c].reaction, post[c])
                     IN  FlushPost(posts, unit.post, unit.dirty)
                ELSE posts
    /\ UNCHANGED post_reactions

\* The request ends with an HTTPException; the session is rolled back and closed.
Fail(c, status, detail, integrity_error) ==
    /\ log' = Logged(Entry(c, status, detail, integrity_error,
                        View(posts, post_reactions, request[c].post_id)))
    /\ Return(c)
    /\ UNCHANGED <<posts, post_reactions>>

\* post = await get_post_by_id(post_id, db)
GetPostById(c) ==
    /\ pc[c] = "get_post_by_id"
    /\ LET found == get_post_by_id(posts, request[c].post_id)
       IN  IF found = None
           THEN Fail(c, 404, POST_NOT_FOUND, FALSE)
           ELSE /\ post' = [post EXCEPT ![c] = found]
                /\ pc' = [pc EXCEPT ![c] = "update_or_create_reaction"]
                /\ UNCHANGED <<posts, post_reactions, log, request,
                               existing_reaction, lookups, analytics, now, commentVars, authVars>>

\* The INSERT of an added PostReaction: created_at takes its default, now(),
\* which in the database is the time the transaction started.
Inserted(obj, txn_start) ==
    IF obj = None THEN None ELSE obj @@ [created_at |-> txn_start]

\* The row lock that the UPDATE statement of update_or_create_reaction takes
\* and holds until its transaction ends: another request has executed the
\* statement on the row and has not finished.
RowLocked(c, id) ==
    \E d \in Calls : d # c /\ pc[d] = "commit" /\ existing_reaction[d].id = id

\* The INSERT finds a row with its key that a transaction in progress has
\* updated, and waits for that transaction to end.
InsertWaits(c, rows, row) ==
    \E i \in 1..Len(rows) :
        /\ rows[i].post_id = row.post_id /\ rows[i].user_id = row.user_id
        /\ RowLocked(c, i)

\* like_post / dislike_post from the check of the existing reaction to the end
\* of the UPDATE statement of update_or_create_reaction, which waits for the
\* lock of the row.  What the statement wrote is seen by others at the commit.
ExecuteUpdate(c) ==
    /\ pc[c] = "update_or_create_reaction"
    /\ existing_reaction[c] # None
    /\ IF existing_reaction[c].reaction = request[c].reaction
       THEN Fail(c, 400, AlreadyDetail(request[c].reaction), FALSE)
       ELSE /\ ~RowLocked(c, existing_reaction[c].id)
            /\ pc' = [pc EXCEPT ![c] = "commit"]
            /\ UNCHANGED <<posts, post_reactions, request, existing_reaction, post,
                           lookups, log, analytics, now, commentVars, authVars>>

\* db.commit(), db.refresh(post) and the route's translation of IntegrityError.
\* Post has the relationship user, loaded with the post, and PostReaction has
\* none: the flush saves the added PostReaction first and the Post after it.
\* The INSERT waits while a row with its key is locked, holding no lock on
\* posts, and then fails on the constraint before UPDATE posts is sent.  A
\* request with no reaction found comes here straight from db.add.
Commit(c) ==
    /\ \/ pc[c] = "update_or_create_reaction" /\ existing_reaction[c] = None
       \/ pc[c] \in {"commit", "insert_waiting"}
    /\ LET new_reaction == request[c].reaction
           existing == existing_reaction[c]
           pending == update_or_create_reaction(existing, new_reaction, post[c])
           unit == [pending EXCEPT !.add = Inserted(@, request[c].txn_start)]
       IN  IF unit.add # None /\ InsertWaits(c, post_reactions, unit.add)
           THEN /\ pc[c] # "insert_waiting"
                /\ pc' = [pc EXCEPT ![c] = "insert_waiting"]
                /\ UNCHANGED <<posts, post_reactions, request, existing_reaction, post,
                               lookups, log, analytics, now, commentVars, authVars>>
           ELSE IF unit.add # None /\ UniqueViolation(post_reactions, unit.add)
           THEN Fail(c, 400, AlreadyDetail(new_reaction), TRUE)
           ELSE LET tbl == FlushPost(posts, unit.post, unit.dirty)
                    rows == FlushReactions(post_reactions, unit, new_reaction)
                IN  /\ posts' = tbl
                    /\ post_reactions' = rows
                    /\ log' = Logged(Entry(c, 200, "", FALSE,
                                View(tbl, rows, request[c].post_id)))
                    /\ Return(c)

Next ==
    \/ \E user \in Users : create_post(user)
    \/ \E c \in Calls, post_id \in PostIds, user \in Users, r \in Reactions :
            GetPostReaction(c, post_id, user, r)
    \/ \E c \in Calls : GetPostById(c)
    \/ \E c \in Calls : ExecuteUpdate(c)
    \/ \E c \in Calls : Commit(c)

Spec == Init /\ [][Next]_vars

----------------------------------------------------------------------------
\* Analytics: GET /analytics/post/{post_id}/likes-dislikes

\* Calendar days, and the values of a DateTime column: a day and an hour of
\* that day, 0 being 00:00:00.
Days == 1..MaxDay
Hours == {0, 12}
DateTimes == [date : Days, hour : Hours]

\* A date compared with a DateTime column is 00:00:00 of that day.
AsDateTime(d) == [date |-> d, hour |-> 0]

\* a <= b on DateTime values
DateTimeLeq(a, b) == a.date < b.date \/ (a.date = b.date /\ a.hour <= b.hour)

\* func.date(created_at)
SqlDate(ts) == ts.date

\* The SQL NULL among the values of an expression.
Null == <<>>

\* case((PostReaction.reaction == kind, 1), else_=0)
CaseReaction(row, kind) == IF row.reaction = kind THEN <<1>> ELSE <<0>>

\* func.count(case(...)) over the rows of a group: the number of rows for
\* which the expression is not NULL.
SqlCount(rows, group, kind) ==
    Cardinality({i \in group : CaseReaction(rows[i], kind) # Null})

\* The where clause as it would be without its post_id condition.
AnalyticsFilterAnyPost(rows, post_id, date_from, date_to) ==
    {i \in 1..Len(rows) :
        /\ DateTimeLeq(AsDateTime(date_from), rows[i].created_at)
        /\ DateTimeLeq(rows[i].created_at, AsDateTime(date_to))}

\* .where(and_(post_id == post_id, created_at >= date_from, created_at <= date_to)):
\* the ids of the rows selected.
AnalyticsFilter(rows, post_id, date_from, date_to) ==
    {i \in 1..Len(rows) :
        /\ rows[i].post_id = post_id
        /\ DateTimeLeq(AsDateTime(date_from), rows[i].created_at)
        /\ DateTimeLeq(rows[i].created_at, AsDateTime(date_to))}

\* .group_by(func.date(created_at)) with the three selected columns: one
\* result row for each day that has a selected row.
Buckets(rows, hits) ==
    {[date |-> d,
      likes |-> SqlCount(rows, {i \in hits : SqlDate(rows[i].created_at) = d}, "like"),
      dislikes |-> SqlCount(rows, {i \in hits : SqlDate(rows[i].created_at) = d}, "dislike")]
        : d \in {SqlDate(rows[i].created_at) : i \in hits}}

\* The ownership check as it would be if it were left out.
OwnerDiffersUnchecked(tbl, post_id, user) == FALSE

\* owner = select(Post.user_id).where(Post.id == post_id) ... scalar_one_or_none();
\* owner != user.id.  With no such post owner is None and differs from every id.
OwnerDiffers(tbl, post_id, user) ==
    post_id \notin 1..Len(tbl) \/ tbl[post_id].user_id # user

\* The date check of the route as it would be with >= for >.
InvalidDateRangeInclusive(start_date, end_date) == start_date >= end_date

\* start_date > end_date
InvalidDateRange(start_date, end_date) == start_date > end_date

\* PostAnalyticsListResponseSchema(analytics_data=...): whether the value
\* validates.  Each element has to be a dict or a PostAnalyticsResponseSchema
\* (the schema does not set from_attributes); the Row objects of result.all()
\* are neither, so of the values the repository returns only the empty list
\* validates.
PostAnalyticsListResponseSchema(analytics_data) == analytics_data = <<>>

\* The orders in which the rows of a set can be returned.
Orderings(S) ==
    {f \in [1..Cardinality(S) -> S] : \A i, j \in 1..Cardinality(S) : f[i] = f[j] => i = j}

\* get_post_analytics: the answers it can give.  The statement has no ORDER BY,
\* so the database returns the groups in an order of its choosing.
get_post_analytics(tbl, rows, post_id, date_from, date_to, user) ==
    IF OwnerDiffers(tbl, post_id, user)
    THEN {[status |-> 400, detail |-> NOT_ACCESS_ANALYTICS, data |-> <<>>, queries |-> 1]}
    ELSE {[status |-> 200, detail |-> "", data |-> data, queries |-> 2] :
            data \in Orderings(Buckets(rows, AnalyticsFilter(rows, post_id, date_from, date_to)))}

\* Answered as it would be if the aggregation wrote the counts it found into
\* the counters of the post.
AnsweredWriting(via, post_id, date_from, date_to, user, answer) ==
    /\ analytics' = [via |-> via, post_id |-> post_id, date_from |-> date_from,
                     date_to |-> date_to, user |-> user, seen |-> completed]
                    @@ answer
    /\ posts' = IF answer.status = 200 /\ Len(answer.data) > 0
                THEN [posts EXCEPT ![post_id].likes = answer.data[1].likes,
                                   ![post_id].dislikes = answer.data[1].dislikes]
                ELSE posts
    /\ UNCHANGED <<post_reactions, pc, request, existing_reaction, post,
                   lookups, log, now, commentVars, authVars>>

\* The request and its answer.
Answered(via, post_id, date_from, date_to, user, answer) ==
    /\ analytics' = [via |-> via, post_id |-> post_id, date_from |-> date_from,
                     date_to |-> date_to, user |-> user, seen |-> completed]
                    @@ answer
    /\ UNCHANGED <<posts, post_reactions, pc, request, existing_reaction, post,
                   lookups, log, now, commentVars, authVars>>

\* The repository function called as the tests call it.
GetPostAnalytics(post_id, date_from, date_to, user) ==
    \E answer \in get_post_analytics(posts, post_reactions, post_id, date_from, date_to, user) :
        Answered("repository", post_id, date_from, date_to, user, answer)

\* The route: the date check, then the repository function.
get_post_likes_dislikes(post_id, start_date, end_date, user) ==
    IF InvalidDateRange(start_date, end_date)
    THEN Answered("route", post_id, start_date, end_date, user,
                  [status |-> 400, detail |-> INVALID_DATE_RANGE, data |-> <<>>,
                   queries |-> 0])
    ELSE \E answer \in get_post_analytics(posts, post_reactions, post_id,
                                          start_date, end_date, user) :
            Answered("route", post_id, start_date, end_date, user,
                     IF PostAnalyticsListResponseSchema(answer.data)
                     THEN answer
                     ELSE [status |-> 500, detail |-> INTERNAL_SERVER_ERROR,
                           data |-> <<>>, queries |-> answer.queries])

\* The tables analytics can be asked about, as like_post and dislike_post
\* leave them: posts of any owners and up to MaxRows reaction rows of existing
\* posts, each stored under the owner of its post and so one at most for a
\* post, each with the created_at the database gave it: the start of its
\* transaction, which for requests that overlap need not follow the ids.
StoredReactions(n, owner) ==
    {rows \in UNION {[1..k -> [post_id : 1..n, user_id : Users, reaction : Reactions,
                               created_at : DateTimes]] : k \in 0..MaxRows} :
        /\ \A i \in 1..Len(rows) : rows[i].user_id = owner[rows[i].post_id]
        /\ \A i, j \in 1..Len(rows) : i < j => rows[i].post_id # rows[j].post_id}

\* The counters like_post and dislike_post leave on the posts.  A post with
\* no row has none; the INSERT of the row makes them 1 and 0, or 0 and 1; each
\* flip writes the counters its request loaded, one moved to the other, so
\* their sum stays 1 while flips of requests that overlap carry likes up or
\* down, here by up to MaxDrift beyond 0 and 1.
StoredCounters(n, rows) ==
    {counters \in [1..n -> [likes : (0 - MaxDrift)..(1 + MaxDrift),
                            dislikes : (0 - MaxDrift)..(1 + MaxDrift)]] :
        \A p \in 1..n :
            IF \E i \in 1..Len(rows) : rows[i].post_id = p
            THEN counters[p].likes + counters[p].dislikes = 1
            ELSE counters[p].likes = 0 /\ counters[p].dislikes = 0}

InitAnalytics ==
    /\ \E n \in 0..MaxPosts : \E owner \in [1..n -> Users] :
        \E rows \in StoredReactions(n, owner) : \E counters \in StoredCounters(n, rows) :
            /\ post_reactions = rows
            /\ posts = [p \in 1..n |->
                    [user_id |-> owner[p],
                     likes |-> counters[p].likes,
                     dislikes |-> counters[p].dislikes]]
    /\ pc = [c \in Calls |-> "idle"]
    /\ request = [c \in Calls |-> None]
    /\ existing_reaction = [c \in Calls |-> None]
    /\ post = [c \in Calls |-> None]
    /\ lookups = [c \in Calls |-> 0]
    /\ log = <<>>
    /\ analytics = None
    /\ now = [date |-> MaxDay, hour |-> 12]
    /\ comments = <<>>
    /\ comment_calls = [k \in CommentCalls |-> None]
    /\ comment_answer = None
    /\ users = <<>>
    /\ signups = [c \in 1..MaxSignups |-> None]
    /\ issued = <<>>
    /\ sessions = [s \in Sessions |-> None]
    /\ auth_answer = None

NextAnalytics ==
    \/ \E post_id \in PostIds, date_from \in Days, date_to \in Days, user \in Users :
            GetPostAnalytics(post_id, date_from, date_to, user)
    \/ \E post_id \in PostIds, start_date \in Days, end_date \in Days, user \in Users :
            get_post_likes_dislikes(post_id, start_date, end_date, user)

SpecAnalytics == InitAnalytics /\ [][NextAnalytics]_vars

----------------------------------------------------------------------------
\* Reactions over several days, then analytics.  Up to MaxSerialCalls like /
\* unlike requests are served one at a time, the clock moves between them, and
\* get_post_analytics is asked about what they left.

\* The database clock moves on to the next of the times of the model.
Tick ==
    /\ \/ now.hour = 0 /\ now' = [now EXCEPT !.hour = 12]
       \/ now.hour = 12 /\ now.date < MaxDay /\ now' = [date |-> now.date + 1, hour |-> 0]
    /\ UNCHANGED <<posts, post_reactions, pc, request, existing_reaction, post,
                   lookups, log, analytics, commentVars, authVars>>

\* No like / unlike request is being served.
Serial == \A c \in Calls : pc[c] \in {"idle", "done"}

\* A step of the history of reactions.
History ==
    \/ Serial /\ Tick
    \/ \E user \in Users : create_post(user)
    \/ \E c \in 1..MaxSerialCalls, post_id \in PostIds, user \in Users, r \in Reactions :
            Serial /\ GetPostReaction(c, post_id, user, r)
    \/ \E c \in 1..MaxSerialCalls : GetPostById(c)
    \/ \E c \in 1..MaxSerialCalls : ExecuteUpdate(c)
    \/ \E c \in 1..MaxSerialCalls : Commit(c)

NextFlip ==
    \/ analytics = None /\ History
    \/ \E post_id \in PostIds, date_from \in Days, date_to \in Days, user \in Users :
            GetPostAnalytics(post_id, date_from, date_to, user)

SpecFlip == Init /\ [][NextFlip]_vars

----------------------------------------------------------------------------
\* Comments: POST /comments/ and PUT /comments/update.  Each handler is two
\* steps, what it does up to its commit and the commit, and the requests
\* being served interleave at them.

\* What datetime.now() and datetime.utcnow() may return: the clock of the
\* application is not the clock of the database.
UtcNows == {AsDateTime(d) : d \in Days}

CommentTexts == {"first", "second"}

\* Comment(comment=..., user_id=..., post_id=...) as inserted: created_at and
\* updated_at take their default, now(), which in the database is the time
\* the transaction started.
NewComment(text, user_id, post_id, txn_start) ==
    [comment |-> text, user_id |-> user_id, post_id |-> post_id,
     created_at |-> txn_start, updated_at |-> txn_start]

\* The query of update_comment_text as it would be without its user_id condition.
OwnCommentAnyUser(rows, comment_id, user_id) ==
    IF comment_id \in 1..Len(rows) THEN comment_id ELSE 0

\* select(Comment).filter(and_(Comment.id == comment_id, or_(Comment.user_id == user.id)))
\* ... scalar_one_or_none(): the id of the comment found, 0 for None.
OwnComment(rows, comment_id, user_id) ==
    IF comment_id \in 1..Len(rows) /\ rows[comment_id].user_id = user_id
    THEN comment_id ELSE 0

\* update_comment_text on the comment it loaded: comment.comment = text and
\* comment.updated_at = datetime.now(), the time the clock of the application
\* shows.  An attribute is dirty when its value differs from the loaded one; an
\* UPDATE that does not set updated_at fills it with onupdate, now().
update_comment_text(loaded, text, datetime_now, txn_start) ==
    [comment |-> text,
     updated_at |-> IF datetime_now # loaded.updated_at THEN datetime_now ELSE txn_start,
     dirty |-> (IF text # loaded.comment THEN {"comment"} ELSE {})
                \cup (IF datetime_now # loaded.updated_at THEN {"updated_at"} ELSE {})]

\* The flush of the Comment object: UPDATE comments SET ... WHERE id = ..., or
\* no statement when no attribute is dirty.
FlushComment(rows, id, obj) ==
    IF obj.dirty = {} THEN rows
    ELSE [rows EXCEPT ![id].comment = IF "comment" \in obj.dirty THEN obj.comment ELSE @,
                      ![id].updated_at = obj.updated_at]

CommentFrame ==
    UNCHANGED <<posts, post_reactions, pc, request, existing_reaction, post,
                lookups, log, analytics, now, authVars>>

\* A request that arrives is served in the lowest free place.
FreeCall(k) ==
    comment_calls[k] = None /\ \A d \in CommentCalls : d < k => comment_calls[d] # None

\* The comments that requests being served have yet to insert.
CommentsDue ==
    Cardinality({k \in CommentCalls :
                    comment_calls[k] # None /\ comment_calls[k].op = "create"})

\* create_comment up to db.add(comment): the post has to exist (404 otherwise).
create_comment(k, post_id, text, user) ==
    /\ FreeCall(k)
    /\ Len(comments) + CommentsDue < MaxComments
    /\ post_id \in 1..Len(posts)
    /\ comment_calls' = [comment_calls EXCEPT ![k] =
            [op |-> "create", comment |-> NewComment(text, user, post_id, now)]]
    /\ UNCHANGED <<comments, comment_answer>>
    /\ CommentFrame

\* The commit and the refresh of create_new_comment.
create_new_comment(k) ==
    /\ comment_calls[k] # None /\ comment_calls[k].op = "create"
    /\ comments' = Append(comments, comment_calls[k].comment)
    /\ comment_calls' = [comment_calls EXCEPT ![k] = None]
    /\ UNCHANGED comment_answer
    /\ CommentFrame

\* update_comment up to the commit of update_comment_text, or its 404 when the
\* query returned None.
update_comment(k, comment_id, text, user, datetime_now) ==
    /\ FreeCall(k)
    /\ LET found == OwnComment(comments, comment_id, user)
       IN  IF found = 0
           THEN /\ comment_answer' =
                    [comment_id |-> comment_id, comment |-> text, user |-> user,
                     status |-> 404, detail |-> COMMENT_NOT_FOUND]
                /\ UNCHANGED comment_calls
           ELSE /\ comment_calls' = [comment_calls EXCEPT ![k] =
                    [op |-> "update", comment_id |-> found, user |-> user,
                     comment |-> update_comment_text(comments[found], text,
                                                     datetime_now, now)]]
                /\ UNCHANGED comment_answer
    /\ UNCHANGED comments
    /\ CommentFrame

\* The commit of update_comment_text and the answer of update_comment.
CommitComment(k) ==
    /\ comment_calls[k] # None /\ comment_calls[k].op = "update"
    /\ comments' = FlushComment(comments, comment_calls[k].comment_id,
                                comment_calls[k].comment)
    /\ comment_answer' =
            [comment_id |-> comment_calls[k].comment_id,
             comment |-> comment_calls[k].comment.comment,
             user |-> comment_calls[k].user,
             status |-> 200, detail |-> COMMENT_UPDATED]
    /\ comment_calls' = [comment_calls EXCEPT ![k] = None]
    /\ CommentFrame

\* The comments are followed from a state with one post, over the first
\* MaxCommentDay days of the clock of the database.
InitComments ==
    /\ posts = <<NewPost(1)>>
    /\ post_reactions = <<>>
    /\ pc = [c \in Calls |-> "idle"]
    /\ request = [c \in Calls |-> None]
    /\ existing_reaction = [c \in Calls |-> None]
    /\ post = [c \in Calls |-> None]
    /\ lookups = [c \in Calls |-> 0]
    /\ log = <<>>
    /\ analytics = None
    /\ now = [date |-> 1, hour |-> 0]
    /\ comments = <<>>
    /\ comment_calls = [k \in CommentCalls |-> None]
    /\ comment_answer = None
    /\ users = <<>>
    /\ signups = [c \in 1..MaxSignups |-> None]
    /\ issued = <<>>
    /\ sessions = [s \in Sessions |-> None]
    /\ auth_answer = None

NextComments ==
    \/ Tick /\ now'.date <= MaxCommentDay
    \/ \E k \in CommentCalls, post_id \in PostIds, text \in CommentTexts, user \in Users :
            create_comment(k, post_id, text, user)
    \/ \E k \in CommentCalls : create_new_comment(k)
    \/ \E k \in CommentCalls, comment_id \in 1..MaxComments, text \in CommentTexts,
          user \in Users, datetime_now \in UtcNows :
            update_comment(k, comment_id, text, user, datetime_now)
    \/ \E k \in CommentCalls : CommitComment(k)

SpecComments == InitComments /\ [][NextComments]_vars

----------------------------------------------------------------------------
\* Accounts: POST /auth/signup, GET /auth/confirmed_email, POST /auth/login,
\* GET /auth/refresh_token and POST /users/reset_password, and
\* confirm_user_in_database of automated_bot.py, which writes the same table.  Every request has
\* its own session; a step of a handler is what it does between two awaits on
\* the database, so requests interleave at their SELECTs and commits.  A flush
\* writes the attributes whose value in the session differs from the value the
\* session loaded, as absolute values.

Emails == {"ann@x.io", "Ann@x.io", "bob@x.io"}
Passwords == {"secret1", "secret2"}

\* func.lower(email)
Lower(email) == IF email = "Ann@x.io" THEN "ann@x.io" ELSE email

\* auth_service.get_password_hash and auth_service.verify_password
get_password_hash(password) == <<"hash", password>>
verify_password(plain_password, hashed_password) ==
    hashed_password = get_password_hash(plain_password)

\* auth_service.create_refresh_token(data={"sub": email}): the next token.
create_refresh_token(email) == [sub |-> email, n |-> Len(issued) + 1]

\* auth_service.decode_refresh_token(refresh_token): the email the token is for.
decode_refresh_token(refresh_token) == refresh_token.sub

\* The refresh tokens a client can present: those that were created and
\* returned in the answer of a login or of a refresh.  A token whose handler
\* has not yet returned is known to nobody.
IssuedTokens ==
    {[sub |-> issued[n], n |-> n] :
        n \in {m \in 1..Len(issued) :
                \A s \in Sessions :
                    ~(/\ sessions[s] # None
                      /\ sessions[s].step = "update_refresh_token"
                      /\ sessions[s].token = [sub |-> issued[m], n |-> m])}}

\* User(**user_data.dict()) as inserted: no refresh token, no login, not confirmed.
NewUser(user_data) ==
    [email |-> user_data.email, password |-> user_data.password,
     confirmed |-> FALSE, refresh_token |-> None, last_login_at |-> None]

\* select(User).filter(func.lower(User.email) == func.lower(email)): the ids of
\* the rows selected.
UsersByEmail(rows, email) ==
    {i \in 1..Len(rows) : Lower(rows[i].email) = Lower(email)}

\* scalar_one_or_none() raises MultipleResultsFound on more than one row.
MultipleResultsFound(hits) == Cardinality(hits) > 1

\* scalar_one_or_none() on at most one row: the row's id, 0 for None.
ScalarOneOrNone(hits) == IF hits = {} THEN 0 ELSE CHOOSE i \in hits : TRUE

\* The answer of an /auth or /users request.
AuthAnswered(op, input, status, detail, refresh_token) ==
    auth_answer' = [op |-> op, input |-> input, status |-> status, detail |-> detail,
                    refresh_token |-> refresh_token]

AuthFrame ==
    UNCHANGED <<posts, post_reactions, pc, request, existing_reaction, post,
                lookups, log, analytics, now, commentVars>>

\* A request that arrives is served in the lowest free session.
Free(s) == sessions[s] = None /\ \A d \in Sessions : d < s => sessions[d] # None

\* The handler passes an await with its locals, or returns and its session is closed.
Awaits(s, locals) == sessions' = [sessions EXCEPT ![s] = locals]
Closed(s) == sessions' = [sessions EXCEPT ![s] = None]

\* The logins that have yet to create their refresh token.
TokensDue ==
    Cardinality({s \in Sessions : sessions[s] # None /\ sessions[s].step = "commit"})

\* register_user up to and including the check of existing_user.
register_user(c, user_data) ==
    /\ signups[c] = None
    /\ \A d \in 1..MaxSignups : d < c => signups[d] # None
    /\ LET hits == UsersByEmail(users, user_data.email)
       IN  IF MultipleResultsFound(hits)
           THEN /\ AuthAnswered("signup", user_data, 500, INTERNAL_SERVER_ERROR, None)
                /\ signups' = [signups EXCEPT ![c] = [done |-> TRUE]]
           ELSE IF ScalarOneOrNone(hits) # 0
           THEN /\ AuthAnswered("signup", user_data, 409, ACCOUNT_EXIST, None)
                /\ signups' = [signups EXCEPT ![c] = [done |-> TRUE]]
           ELSE /\ signups' = [signups EXCEPT ![c] =
                        [user_data EXCEPT !.password = get_password_hash(@)]]
                /\ UNCHANGED auth_answer
    /\ UNCHANGED <<users, issued, sessions>>
    /\ AuthFrame

\* The rest of register_user: create_user (add, commit, refresh).
create_user(c) ==
    /\ signups[c] # None /\ signups[c] # [done |-> TRUE]
    /\ Len(users) < MaxAccounts
    /\ users' = Append(users, NewUser(signups[c]))
    /\ signups' = [signups EXCEPT ![c] = [done |-> TRUE]]
    /\ AuthAnswered("signup", signups[c], 201, "", None)
    /\ UNCHANGED <<issued, sessions>>
    /\ AuthFrame

\* confirm_email up to the check of user: the token of the confirmation letter
\* carries the email.
confirm_email(s, email) ==
    /\ Free(s)
    /\ LET hits == UsersByEmail(users, email)
           id == ScalarOneOrNone(hits)
       IN  IF MultipleResultsFound(hits)
           THEN /\ AuthAnswered("confirm", email, 500, INTERNAL_SERVER_ERROR, None)
                /\ UNCHANGED sessions
           ELSE IF id = 0 \/ users[id].confirmed
           THEN /\ AuthAnswered("confirm", email, 400, INVALID_CONFIRMATION_TOKEN, None)
                /\ UNCHANGED sessions
           ELSE /\ Awaits(s, [op |-> "confirm", step |-> "confirm_user_email",
                              input |-> email, id |-> id])
                /\ UNCHANGED auth_answer
    /\ UNCHANGED <<users, signups, issued>>
    /\ AuthFrame

\* confirm_user_email up to its commit: the email is looked up again and
\* user.confirmed = True is assigned to the object the session holds.
confirm_user_email(s) ==
    /\ sessions[s] # None /\ sessions[s].step = "confirm_user_email"
    /\ LET email == sessions[s].input
           hits == UsersByEmail(users, email)
       IN  IF MultipleResultsFound(hits)
           THEN /\ AuthAnswered("confirm", email, 500, INTERNAL_SERVER_ERROR, None)
                /\ Closed(s)
           ELSE /\ Awaits(s, [op |-> "confirm", step |-> "commit_confirmed",
                              input |-> email, id |-> sessions[s].id])
                /\ UNCHANGED auth_answer
    /\ UNCHANGED <<users, signups, issued>>
    /\ AuthFrame

\* The commit of confirm_user_email and the answer of confirm_email.
CommitConfirmed(s) ==
    /\ sessions[s] # None /\ sessions[s].step = "commit_confirmed"
    /\ users' = [users EXCEPT ![sessions[s].id].confirmed = TRUE]
    /\ AuthAnswered("confirm", sessions[s].input, 200, EMAIL_CONFIRMED, None)
    /\ Closed(s)
    /\ UNCHANGED <<signups, issued>>
    /\ AuthFrame

\* select(User).where(User.email == email) of the script that signs users up
\* and confirms them in the database: the ids of the rows selected, the email
\* compared as it is written.
UsersByExactEmail(rows, email) == {i \in 1..Len(rows) : rows[i].email = email}

\* confirm_user_in_database up to its commit, in a session of its own on the
\* same database.  With no row it writes nothing; with more than one row
\* scalar_one_or_none() raises and the script stops.
confirm_user_in_database(s, email) ==
    /\ Free(s)
    /\ LET hits == UsersByExactEmail(users, email)
       IN  /\ ~MultipleResultsFound(hits)
           /\ ScalarOneOrNone(hits) # 0
           /\ Awaits(s, [op |-> "script", step |-> "session_commit", input |-> email,
                         id |-> ScalarOneOrNone(hits),
                         loaded |-> users[ScalarOneOrNone(hits)].confirmed])
    /\ UNCHANGED <<users, signups, issued, auth_answer>>
    /\ AuthFrame

\* session.commit() of confirm_user_in_database; the script gets no answer.
SessionCommit(s) ==
    /\ sessions[s] # None /\ sessions[s].step = "session_commit"
    /\ users' = [users EXCEPT ![sessions[s].id].confirmed =
                    IF sessions[s].loaded # TRUE THEN TRUE ELSE @]
    /\ Closed(s)
    /\ UNCHANGED <<signups, issued, auth_answer>>
    /\ AuthFrame

\* user is None or not user.confirmed or not verify_password(password, user.password)
LoginRefused(rows, id, password) ==
    id = 0 \/ ~rows[id].confirmed \/ ~verify_password(password, rows[id].password)

\* authenticate_user up to user.last_login_at = datetime.utcnow(), utcnow being
\* what the clock of the application shows.  The refusal names
\* messages.INVALID_CREDENTIALS, which conf/messages.py does not define:
\* building the HTTPException raises AttributeError and the request is
\* answered 500.
authenticate_user(s, username, password, utcnow) ==
    /\ Free(s)
    /\ LET hits == UsersByEmail(users, username)
           id == ScalarOneOrNone(hits)
           input == [username |-> username, password |-> password]
       IN  IF MultipleResultsFound(hits)
           THEN /\ AuthAnswered("login", input, 500, INTERNAL_SERVER_ERROR, None)
                /\ UNCHANGED sessions
           ELSE IF LoginRefused(users, id, password)
           THEN /\ AuthAnswered("login", input, 500, INTERNAL_SERVER_ERROR, None)
                /\ UNCHANGED sessions
           ELSE /\ Len(issued) + TokensDue < MaxTokens
                /\ Awaits(s, [op |-> "login", step |-> "commit", input |-> input,
                              id |-> id, user |-> users[id],
                              last_login_at |-> utcnow])
                /\ UNCHANGED auth_answer
    /\ UNCHANGED <<users, signups, issued>>
    /\ AuthFrame

\* The first commit of authenticate_user writes last_login_at; the handler
\* then creates the tokens and sets user.refresh_token.
CommitLastLogin(s) ==
    /\ sessions[s] # None /\ sessions[s].step = "commit"
    /\ LET id == sessions[s].id
           user == sessions[s].user
           refresh_token == create_refresh_token(user.email)
       IN  /\ users' = [users EXCEPT ![id].last_login_at =
                            IF sessions[s].last_login_at # user.last_login_at
                            THEN sessions[s].last_login_at ELSE @]
           /\ issued' = Append(issued, refresh_token.sub)
           /\ Awaits(s, [op |-> "login", step |-> "update_refresh_token",
                         input |-> sessions[s].input, id |-> id,
                         loaded |-> user.refresh_token, token |-> refresh_token,
                         status |-> 200, detail |-> ""])
    /\ UNCHANGED <<signups, auth_answer>>
    /\ AuthFrame

\* user.refresh_token != refresh_token
TokenDiffers(stored, refresh_token) == stored # refresh_token

\* refresh_user_token up to user.refresh_token = token of update_refresh_token,
\* for a token that auth_service issued.  With no row for the email user is
\* None and user.refresh_token raises AttributeError.
refresh_user_token(s, refresh_token) ==
    /\ Free(s)
    /\ LET email == decode_refresh_token(refresh_token)
           hits == UsersByEmail(users, email)
           id == ScalarOneOrNone(hits)
           new_refresh_token == create_refresh_token(email)
       IN  IF MultipleResultsFound(hits) \/ id = 0
           THEN /\ AuthAnswered("refresh", refresh_token, 500, INTERNAL_SERVER_ERROR, None)
                /\ UNCHANGED <<sessions, issued>>
           ELSE IF TokenDiffers(users[id].refresh_token, refresh_token)
           THEN /\ Awaits(s, [op |-> "refresh", step |-> "update_refresh_token",
                              input |-> refresh_token, id |-> id,
                              loaded |-> users[id].refresh_token, token |-> None,
                              status |-> 401, detail |-> INVALID_REFRESH_TOKEN])
                /\ UNCHANGED <<auth_answer, issued>>
           ELSE /\ Len(issued) + TokensDue < MaxTokens
                /\ Awaits(s, [op |-> "refresh", step |-> "update_refresh_token",
                              input |-> refresh_token, id |-> id,
                              loaded |-> users[id].refresh_token,
                              token |-> new_refresh_token,
                              status |-> 200, detail |-> ""])
                /\ issued' = Append(issued, email)
                /\ UNCHANGED auth_answer
    /\ UNCHANGED <<users, signups>>
    /\ AuthFrame

\* The commit of update_refresh_token, and the answer of the handler that
\* called it: authenticate_user or refresh_user_token.
update_refresh_token(s) ==
    /\ sessions[s] # None /\ sessions[s].step = "update_refresh_token"
    /\ users' = [users EXCEPT ![sessions[s].id].refresh_token =
                    IF sessions[s].token # sessions[s].loaded
                    THEN sessions[s].token ELSE @]
    /\ AuthAnswered(sessions[s].op, sessions[s].input, sessions[s].status,
                    sessions[s].detail,
                    IF sessions[s].status = 200 THEN sessions[s].token ELSE None)
    /\ Closed(s)
    /\ UNCHANGED <<signups, issued>>
    /\ AuthFrame

\* reset_password up to user.password = new_password of update_user_password:
\* the token of the reset letter carries the email.
reset_password(s, email, new_password) ==
    /\ Free(s)
    /\ LET hits == UsersByEmail(users, email)
           id == ScalarOneOrNone(hits)
           input == [email |-> email, new_password |-> new_password]
       IN  IF MultipleResultsFound(hits)
           THEN /\ AuthAnswered("reset", input, 500, INTERNAL_SERVER_ERROR, None)
                /\ UNCHANGED sessions
           ELSE IF id = 0
           THEN /\ AuthAnswered("reset", input, 404, USER_NOT_FOUND, None)
                /\ UNCHANGED sessions
           ELSE /\ Awaits(s, [op |-> "reset", step |-> "update_user_password",
                              input |-> input, id |-> id,
                              loaded |-> users[id].password,
                              password |-> get_password_hash(new_password)])
                /\ UNCHANGED auth_answer
    /\ UNCHANGED <<users, signups, issued>>
    /\ AuthFrame

\* The commit of update_user_password, and the answer of reset_password.
update_user_password(s) ==
    /\ sessions[s] # None /\ sessions[s].step = "update_user_password"
    /\ users' = [users EXCEPT ![sessions[s].id].password =
                    IF sessions[s].password # sessions[s].loaded
                    THEN sessions[s].password ELSE @]
    /\ AuthAnswered("reset", sessions[s].input, 200, PASSWORD_RESET_SUCCESS, None)
    /\ Closed(s)
    /\ UNCHANGED <<signups, issued>>
    /\ AuthFrame

\* Signups, up to MaxSignups of them, their lookups and inserts interleaved
\* with each other and with the confirmations of the emails.
NextSignup ==
    \/ \E c \in 1..MaxSignups, email \in Emails, password \in Passwords :
            register_user(c, [email |-> email, password |-> password])
    \/ \E c \in 1..MaxSignups : create_user(c)
    \/ \E s \in Sessions, email \in Emails : confirm_email(s, email)
    \/ \E s \in Sessions : confirm_user_email(s)
    \/ \E s \in Sessions : CommitConfirmed(s)
    \/ \E s \in Sessions, email \in Emails : confirm_user_in_database(s, email)
    \/ \E s \in Sessions : SessionCommit(s)

SpecSignup == Init /\ [][NextSignup]_vars

\* All the requests on accounts, for up to MaxHolders signups.
NextAuth ==
    \/ \E c \in 1..MaxHolders, email \in Emails, password \in Passwords :
            register_user(c, [email |-> email, password |-> password])
    \/ \E c \in 1..MaxHolders : create_user(c)
    \/ \E s \in Sessions, email \in Emails : confirm_email(s, email)
    \/ \E s \in Sessions : confirm_user_email(s)
    \/ \E s \in Sessions : CommitConfirmed(s)
    \/ \E s \in Sessions, email \in Emails : confirm_user_in_database(s, email)
    \/ \E s \in Sessions : SessionCommit(s)
    \/ \E s \in Sessions, username \in Emails, password \in Passwords, utcnow \in UtcNows :
            authenticate_user(s, username, password, utcnow)
    \/ \E s \in Sessions : CommitLastLogin(s)
    \/ \E s \in Sessions, refresh_token \in IssuedTokens : refresh_user_token(s, refresh_token)
    \/ \E s \in Sessions : update_refresh_token(s)
    \/ \E s \in Sessions, email \in Emails, new_password \in Passwords :
            reset_password(s, email, new_password)
    \/ \E s \in Sessions : update_user_password(s)

SpecAuth == Init /\ [][NextAuth]_vars

----------------------------------------------------------------------------
\* Vocabulary of the properties

\* The number of rows of a table for one post and one kind of reaction.
CountRows(rows, post_id, reaction) ==
    Cardinality({i \in 1..Len(rows) :
                    rows[i].post_id = post_id /\ rows[i].reaction = reaction})

\* The rows of a view that belong to one user.
RowsOf(view, user) == {r \in view.reactions : r.user_id = user}

\* The last two completed requests, when two have completed.
First == log[1]
Second == log[2]

\* Second was made after First had returned: the two ran one after the other.
InARow == Len(log) = 2 /\ Second.began >= First.seq

\* Second was made before First returned: the two overlapped.
Overlapped == Len(log) = 2 /\ Second.began < First.seq

\* First found a post nobody had reacted to.
FreshPost == First.before.post # None /\ First.before.reactions = {}

SamePost == First.post_id = Second.post_id

\* C1: after every completed like / unlike request, every post's likes is the
\* number of its reaction rows of kind like and its dislikes the number of its
\* rows of kind dislike.
C1_CounterInvariant ==
    \A p \in 1..Len(posts) :
        /\ posts[p].likes = CountRows(post_reactions, p, "like")
        /\ posts[p].dislikes = CountRows(post_reactions, p, "dislike")

\* C2: two different users who like, one after the other, a post nobody has
\* reacted to both succeed, leave one like row each, and raise likes by 2.
C2_Independence ==
    (InARow /\ SamePost /\ FreshPost /\ First.user # Second.user
        /\ First.reaction = "like" /\ Second.reaction = "like")
    => /\ First.status = 200 /\ Second.status = 200
       /\ \E r \in RowsOf(Second.after, First.user) : r.reaction = "like"
       /\ \E r \in RowsOf(Second.after, Second.user) : r.reaction = "like"
       /\ Second.after.post.likes = First.before.post.likes + 2

\* C3: a user, owner of the post or not, who likes and then dislikes a post
\* nobody has reacted to succeeds twice, leaves likes as it was, dislikes one
\* higher, and exactly one row for (post, user), of kind dislike.
C3_Flip ==
    (InARow /\ SamePost /\ FreshPost /\ First.user = Second.user
        /\ First.reaction = "like" /\ Second.reaction = "dislike")
    => /\ First.status = 200 /\ Second.status = 200
       /\ Second.after.post.likes = First.before.post.likes
       /\ Second.after.post.dislikes = First.before.post.dislikes + 1
       /\ Cardinality(RowsOf(Second.after, First.user)) = 1
       /\ \A r \in RowsOf(Second.after, First.user) : r.reaction = "dislike"

\* C4: when a like (a dislike) of a post by a user has succeeded, the same
\* request made again right after it is answered 400 with ALREADY_LIKED
\* (ALREADY_UNLIKED) and changes neither the counters nor any reaction row.
C4_IdempotentRejection ==
    (InARow /\ SamePost /\ First.user = Second.user
        /\ First.reaction = Second.reaction /\ First.status = 200)
    => /\ Second.status = 400
       /\ Second.detail = (IF Second.reaction = "like" THEN ALREADY_LIKED
                                                      ELSE ALREADY_UNLIKED)
       /\ Second.before = First.after
       /\ Second.after = Second.before

\* C4 happens: a like by a user who does not own the post succeeded and,
\* repeated, was rejected.
C4_Witness ==
    /\ InARow /\ SamePost /\ First.user = Second.user
    /\ First.reaction = "like" /\ Second.reaction = "like"
    /\ First.status = 200 /\ Second.status = 400
    /\ First.before.post.user_id # First.user

\* C5: after a successful like (dislike) by a user, the lookup of that user's
\* reaction to the post finds a row of kind like (dislike).
C5_RoundTrip ==
    \A i \in 1..Len(log) :
        log[i].status = 200
        => \E r \in RowsOf(log[i].after, log[i].user) : r.reaction = log[i].reaction

\* C6: when the requests of two different users on a post nobody has reacted
\* to overlap, both succeed, likes + dislikes ends 2 higher, and the counters
\* equal the numbers of rows.
C6_NoLostUpdate ==
    (Overlapped /\ SamePost /\ FreshPost /\ First.user # Second.user)
    => /\ First.status = 200 /\ Second.status = 200
       /\ Second.after.post.likes + Second.after.post.dislikes
            = First.before.post.likes + First.before.post.dislikes + 2
       /\ Second.after.post.likes
            = Cardinality({r \in Second.after.reactions : r.reaction = "like"})
       /\ Second.after.post.dislikes
            = Cardinality({r \in Second.after.reactions : r.reaction = "dislike"})

\* C7: there is never more than one reaction row for a (post_id, user_id)
\* pair, and a request keeps every row that was there, with its id and its
\* pair, adding at most one row.
C7_Uniqueness ==
    /\ \A i, j \in 1..Len(post_reactions) :
            (post_reactions[i].post_id = post_reactions[j].post_id
                /\ post_reactions[i].user_id = post_reactions[j].user_id) => i = j
    /\ \A k \in 1..Len(log) :
            /\ \A r \in log[k].before.reactions :
                    \E q \in log[k].after.reactions :
                        q.id = r.id /\ q.post_id = r.post_id /\ q.user_id = r.user_id
            /\ Cardinality(log[k].after.reactions)
                    <= Cardinality(log[k].before.reactions) + 1
            /\ \A u \in Users : Cardinality(RowsOf(log[k].after, u)) <= 1

\* C7 happens: a second request of the user who holds the row changed its
\* kind in place, and another request was stopped from adding a second row.
C7_Witness ==
    /\ Len(log) = 2
    /\ First.status = 200
    /\ \E r \in First.before.reactions, q \in First.after.reactions :
            q.id = r.id /\ q.reaction # r.reaction
    /\ Second.integrity_error
    /\ Second.after.reactions = First.after.reactions

\* C8: a request by one user leaves the reaction rows that other users hold on
\* the post as they were.
C8_Isolation ==
    \A i \in 1..Len(log) : \A u \in Users :
        u # log[i].user => RowsOf(log[i].after, u) = RowsOf(log[i].before, u)

\* C9 as stated: a request whose insert hits the unique constraint runs its
\* read-modify-write a second time.
C9_Retry ==
    \A i \in 1..Len(log) : log[i].integrity_error => log[i].lookups = 2

\* C9 amended: a request whose insert hits the unique constraint has run its
\* read-modify-write once, persists nothing, and is answered 400 with
\* ALREADY_LIKED (like) or ALREADY_UNLIKED (unlike) instead of the error.
C9_Translated ==
    \A i \in 1..Len(log) :
        log[i].integrity_error
        => /\ log[i].lookups = 1
           /\ log[i].status = 400
           /\ log[i].detail = (IF log[i].reaction = "like" THEN ALREADY_LIKED
                                                           ELSE ALREADY_UNLIKED)
           /\ log[i].after = log[i].before

\* C9 happens: an unlike hit the constraint while another request's row was there.
C9_Witness ==
    \E i \in 1..Len(log) :
        /\ log[i].integrity_error
        /\ log[i].reaction = "dislike"
        /\ log[i].before.reactions # {}

\* C10: when two likes by the same user of a post nobody has reacted to
\* overlap, there is in the end exactly one row for (post, user) and likes is
\* exactly 1 higher.
C10_SameUserRace ==
    (Overlapped /\ SamePost /\ FreshPost /\ First.user = Second.user
        /\ First.reaction = "like" /\ Second.reaction = "like")
    => /\ Cardinality(RowsOf(Second.after, First.user)) = 1
       /\ Second.after.post.likes = First.before.post.likes + 1

\* C11: a like / unlike request whose post_id names no post is answered 404
\* with POST_NOT_FOUND, inserts no reaction row and changes no post's counters.
C11_NotFound ==
    [][\A c \in Calls :
        (pc[c] # "done" /\ pc'[c] = "done" /\ request[c].post_id \notin 1..Len(posts))
        => /\ log'[Len(log')].status = 404
           /\ log'[Len(log')].detail = POST_NOT_FOUND
           /\ post_reactions' = post_reactions
           /\ posts' = posts]_vars

\* C11 happens: a request for a missing post was answered 404 while another
\* post had a reaction.
C11_Witness ==
    \E i \in 1..Len(log) :
        /\ log[i].status = 404
        /\ log[i].before.post = None
        /\ Len(post_reactions) > 0

\* C12: a reaction row, once there, stays: in every step each row of
\* post_reactions is still there afterwards, with its post_id and user_id.
C12_NoWayBack ==
    [][\A i \in 1..Len(post_reactions) :
        /\ i <= Len(post_reactions')
        /\ post_reactions'[i].post_id = post_reactions[i].post_id
        /\ post_reactions'[i].user_id = post_reactions[i].user_id]_vars

\* C12 happens: a post had a reaction row and a later request on it succeeded.
C12_Witness ==
    /\ Len(log) = 2 /\ SamePost
    /\ First.after.reactions # {}
    /\ Second.status = 200
    /\ Second.after.reactions # {}

----------------------------------------------------------------------------
\* Vocabulary of the analytics properties

\* get_post_analytics was called and returned its rows.
Returned ==
    analytics # None /\ analytics.via = "repository" /\ analytics.status = 200

\* The reaction rows of a post created on a calendar day, of one kind.
RowsOn(post_id, d, reaction) ==
    {i \in 1..Len(post_reactions) :
        /\ post_reactions[i].post_id = post_id
        /\ post_reactions[i].created_at.date = d
        /\ post_reactions[i].reaction = reaction}

\* The buckets returned for a day.
BucketsOf(d) == {k \in 1..Len(analytics.data) : analytics.data[k].date = d}

\* C13: in every day bucket that get_post_analytics returns to the owner, likes
\* is the number of like rows of the post created on that day and dislikes the
\* number of dislike rows created on that day.
C13_PerDayCounts ==
    Returned =>
        \A k \in 1..Len(analytics.data) :
            /\ analytics.data[k].likes =
                Cardinality(RowsOn(analytics.post_id, analytics.data[k].date, "like"))
            /\ analytics.data[k].dislikes =
                Cardinality(RowsOn(analytics.post_id, analytics.data[k].date, "dislike"))

\* The request named a stored post.
PostExists == analytics.post_id \in 1..Len(posts)

\* The request reached get_post_analytics: it was called directly, or the
\* route let the date range through.
ReachedRepository ==
    /\ analytics # None
    /\ analytics.via = "repository"
        \/ ~InvalidDateRange(analytics.date_from, analytics.date_to)

\* The calendar day is inside the requested range, both ends included.
InRange(d) == analytics.date_from <= d /\ d <= analytics.date_to

\* The reaction rows of the requested post created on a calendar day.
RowsOfPostOn(d) == RowsOn(analytics.post_id, d, "like") \cup RowsOn(analytics.post_id, d, "dislike")

\* C14: every reaction of the post whose calendar day of creation lies between
\* date_from and date_to, both included and whatever the time of day, is
\* counted in the bucket returned for that day.
C14_Complete ==
    Returned =>
        \A i \in 1..Len(post_reactions) :
            (/\ post_reactions[i].post_id = analytics.post_id
             /\ InRange(post_reactions[i].created_at.date))
            => \E k \in BucketsOf(post_reactions[i].created_at.date) :
                (IF post_reactions[i].reaction = "like"
                 THEN analytics.data[k].likes ELSE analytics.data[k].dislikes)
                >= Cardinality(RowsOn(analytics.post_id,
                                      post_reactions[i].created_at.date,
                                      post_reactions[i].reaction))

\* C15: every bucket returned has a date between date_from and date_to, stands
\* for at least one reaction of the post on that day and counts no more rows
\* than the post has on that day; a range with no reaction of the post yields
\* the empty sequence.
C15_Sound ==
    Returned =>
        /\ \A k \in 1..Len(analytics.data) :
            /\ InRange(analytics.data[k].date)
            /\ RowsOfPostOn(analytics.data[k].date) # {}
            /\ analytics.data[k].likes <= Cardinality(RowsOfPostOn(analytics.data[k].date))
            /\ analytics.data[k].dislikes <= Cardinality(RowsOfPostOn(analytics.data[k].date))
        /\ (\A d \in Days : InRange(d) => RowsOfPostOn(d) = {}) => analytics.data = <<>>

\* A bucket was returned for a day on which another post has a reaction too.
C15_Witness ==
    /\ Returned
    /\ \E k \in 1..Len(analytics.data) : \E i \in 1..Len(post_reactions) :
        /\ post_reactions[i].post_id # analytics.post_id
        /\ post_reactions[i].created_at.date = analytics.data[k].date

\* C16: get_post_analytics for a stored post, asked by a user who does not own
\* it, fails with NOT_ACCESS_ANALYTICS and returns no rows, whatever the range.
C16_Ownership ==
    (ReachedRepository /\ PostExists /\ posts[analytics.post_id].user_id # analytics.user)
    => /\ analytics.status = 400
       /\ analytics.detail = NOT_ACCESS_ANALYTICS
       /\ analytics.data = <<>>
       /\ analytics.queries = 1

\* A user asked for another user's post, which has reactions in the range.
C16_Witness ==
    /\ ReachedRepository /\ PostExists
    /\ posts[analytics.post_id].user_id # analytics.user
    /\ analytics.status = 400
    /\ \E d \in Days : InRange(d) /\ RowsOfPostOn(d) # {}

\* C17: get_post_analytics for a post_id that names no post fails with 404,
\* not with the answer given for a post owned by someone else.
C17_MissingPost ==
    (ReachedRepository /\ ~PostExists)
    => /\ analytics.status = 404
       /\ analytics.detail # NOT_ACCESS_ANALYTICS

\* C18: a request with date_from > date_to is answered 400 INVALID_DATE_RANGE
\* before any query is made, for every user and post; a request with
\* date_from = date_to is not rejected for its range.
C18_InvalidRange ==
    (analytics # None /\ analytics.via = "route")
    => /\ analytics.date_from > analytics.date_to
            => /\ analytics.status = 400
               /\ analytics.detail = INVALID_DATE_RANGE
               /\ analytics.data = <<>>
               /\ analytics.queries = 0
       /\ analytics.date_from = analytics.date_to
            => analytics.detail # INVALID_DATE_RANGE

\* The owner of a post with reactions asked for a range that ends before it
\* starts.
C18_Witness ==
    /\ analytics # None /\ analytics.via = "route"
    /\ analytics.date_from > analytics.date_to
    /\ PostExists /\ posts[analytics.post_id].user_id = analytics.user
    /\ Len(post_reactions) > 0
    /\ analytics.detail = INVALID_DATE_RANGE

\* C19: get_post_analytics returns exactly one bucket for each calendar day of
\* the range on which the post has a reaction, and none for any other day.
C19_BucketSet ==
    Returned =>
        \A d \in Days :
            Cardinality(BucketsOf(d)) =
                IF InRange(d) /\ RowsOfPostOn(d) # {} THEN 1 ELSE 0

----------------------------------------------------------------------------
\* C21: in every state that like / unlike requests can reach, in any order and
\* interleaving, every post has likes >= 0 and dislikes >= 0.
C21_NonNegative ==
    \A p \in 1..Len(posts) : posts[p].likes >= 0 /\ posts[p].dislikes >= 0

\* C23: no step of a like / unlike request on a post, whether the request
\* succeeds or fails, changes the counters or the reaction rows of another post.
C23_PostsIndependent ==
    [][\A c \in Calls :
        /\ (pc[c] = "idle" /\ pc'[c] # "idle")
            => posts' = posts /\ post_reactions' = post_reactions
        /\ (pc[c] # "idle" /\ pc'[c] # pc[c])
            => \A q \in PostIds :
                q # request[c].post_id
                => View(posts', post_reactions', q) = View(posts, post_reactions, q)]_vars

\* A request on a post succeeded while the other post had a reaction row and
\* a counter that is not 0.
C23_Witness ==
    /\ Len(log) > 0
    /\ log[Len(log)].status = 200
    /\ \E q \in 1..Len(posts) :
        /\ q # log[Len(log)].post_id
        /\ posts[q].likes + posts[q].dislikes > 0
        /\ \E i \in 1..Len(post_reactions) : post_reactions[i].post_id = q

\* C28: every reaction row carries the user_id of the owner of its post, so a
\* post never has more than one reaction row and its likes + dislikes never
\* exceeds 1, whichever users asked.
C28_OwnerKeyed ==
    /\ \A i \in 1..Len(post_reactions) :
        post_reactions[i].user_id = posts[post_reactions[i].post_id].user_id
    /\ \A p \in 1..Len(posts) :
        /\ Cardinality({i \in 1..Len(post_reactions) : post_reactions[i].post_id = p}) <= 1
        /\ posts[p].likes + posts[p].dislikes <= 1

\* Two different users reacted to a post with success: one who does not own
\* it, then its owner.
C28_Witness ==
    /\ Len(log) = 2 /\ SamePost
    /\ First.user # Second.user
    /\ First.status = 200 /\ Second.status = 200
    /\ First.user # First.before.post.user_id

\* C29: the step at which a like / unlike request meets the unique constraint
\* leaves every post and every reaction row as stored before it, and the
\* request is answered 400 with ALREADY_LIKED (like) or ALREADY_UNLIKED (unlike).
C29_FailedCommit ==
    [][\A c \in Calls :
        (/\ pc[c] \in {"update_or_create_reaction", "insert_waiting"} /\ pc'[c] = "done"
         /\ log'[Len(log')].integrity_error)
        => /\ posts' = posts
           /\ post_reactions' = post_reactions
           /\ log'[Len(log')].status = 400
           /\ log'[Len(log')].detail = AlreadyDetail(request[c].reaction)]_vars

\* A like met the constraint after the Post object's likes had been raised in
\* the session.
C29_Witness ==
    \E i \in 1..Len(log) :
        /\ log[i].integrity_error
        /\ log[i].reaction = "like"
        /\ log[i].status = 400
        /\ log[i].after.post.likes + log[i].after.post.dislikes = 1

\* C22: a call of get_post_analytics or of its route, answered with rows or
\* with an error, leaves every post's counters and every reaction row (kind,
\* created_at, user_id, post_id) as they were.
C22_ReadOnly ==
    [][analytics' # analytics
        => posts' = posts /\ post_reactions' = post_reactions]_vars

\* Analytics returned a bucket for a post whose rows of both kinds it counted.
C22_Witness ==
    /\ Returned
    /\ Len(analytics.data) > 0
    /\ \E p \in 1..Len(posts) : posts[p].likes # posts[p].dislikes

\* The last like / unlike request flipped, on a later day, a reaction row
\* created on day d1, and get_post_analytics was then asked by the owner for a
\* range that holds both days.
FlippedLater(d1) ==
    /\ Returned
    /\ Len(log) > 0
    /\ log[Len(log)].status = 200
    /\ log[Len(log)].post_id = analytics.post_id
    /\ \E r \in log[Len(log)].before.reactions :
        r.reaction # log[Len(log)].reaction /\ r.created_at.date = d1
    /\ d1 < log[Len(log)].at.date
    /\ InRange(d1) /\ InRange(log[Len(log)].at.date)

\* C30: after a reaction created on day d1 was flipped on a later day d2, the
\* row keeps its created_at, get_post_analytics counts it with its new kind in
\* the bucket of d1, and returns no bucket for d2.
C30_FirstDay ==
    \A d1 \in Days :
        FlippedLater(d1)
        => /\ \A r \in log[Len(log)].before.reactions :
                \E q \in log[Len(log)].after.reactions :
                    /\ q.id = r.id /\ q.created_at = r.created_at
                    /\ q.reaction = log[Len(log)].reaction
           /\ \E k \in BucketsOf(d1) :
                (IF log[Len(log)].reaction = "like"
                 THEN analytics.data[k].likes ELSE analytics.data[k].dislikes)
                = Cardinality(RowsOn(analytics.post_id, d1, log[Len(log)].reaction))
           /\ Cardinality(RowsOn(analytics.post_id, d1, log[Len(log)].reaction)) = 1
           /\ BucketsOf(log[Len(log)].at.date) = {}

\* A like made on day 1 was flipped to a dislike on day 2 and analytics asked
\* for both days.
C30_Witness ==
    /\ FlippedLater(1)
    /\ log[Len(log)].reaction = "dislike"
    /\ analytics.date_from = 1 /\ analytics.date_to = MaxDay

\* The step answers a PUT /comments/update request.
CommentAnswered ==
    \/ comment_answer' # comment_answer
    \/ \E k \in CommentCalls :
            comment_calls[k] # None /\ comment_calls[k].op = "update" /\ comment_calls'[k] = None

\* C27: the text and the updated_at of a comment change only in the step that
\* answers 200 to an update_comment request of the comment's author for that
\* comment; a request of any other user, or for an unknown comment id, is
\* answered 404 COMMENT_NOT_FOUND in a step that leaves every comment as it was.
C27_AuthorOnly ==
    [][/\ \A id \in 1..Len(comments) :
            (\/ comments'[id].comment # comments[id].comment
             \/ comments'[id].updated_at # comments[id].updated_at)
                => /\ CommentAnswered
                   /\ comment_answer'.status = 200
                   /\ comment_answer'.comment_id = id
                   /\ comment_answer'.user = comments[id].user_id
       /\ CommentAnswered
            => LET id == comment_answer'.comment_id
               IN  IF id \in 1..Len(comments) /\ comments[id].user_id = comment_answer'.user
                   THEN comment_answer'.status = 200
                   ELSE /\ comment_answer'.status = 404
                        /\ comment_answer'.detail = COMMENT_NOT_FOUND
                        /\ comments' = comments]_vars

\* A user asked to change another user's comment, whose author is changing it
\* at the same time, to another text, and was answered 404.
C27_Witness ==
    /\ comment_answer # None
    /\ comment_answer.status = 404
    /\ comment_answer.comment_id \in 1..Len(comments)
    /\ comments[comment_answer.comment_id].comment # comment_answer.comment
    /\ \E k \in CommentCalls :
            /\ comment_calls[k] # None /\ comment_calls[k].op = "update"
            /\ comment_calls[k].comment_id = comment_answer.comment_id

----------------------------------------------------------------------------
\* Vocabulary of the account properties

\* The step is the answer to a request of one kind.
AnswersTo(op) == auth_answer' # auth_answer /\ auth_answer'.op = op

\* The rows of users whose email is the given one, letter case apart.
Holders(email) == {i \in 1..Len(users) : Lower(users[i].email) = Lower(email)}

\* C24: when refresh_user_token succeeds for a token, the stored refresh token
\* becomes the newly issued one; a call that presents a token other than the
\* stored one is answered 401 and sets the stored token to None, so that every
\* later attempt fails until the next login.
C24_SingleUse ==
    [][AnswersTo("refresh")
        => /\ auth_answer'.status = 200
                => \A i \in Holders(auth_answer'.input.sub) :
                    /\ users'[i].refresh_token = auth_answer'.refresh_token
                    /\ auth_answer'.refresh_token # auth_answer'.input
           /\ (\A i \in Holders(auth_answer'.input.sub) :
                    users[i].refresh_token # auth_answer'.input)
                => /\ auth_answer'.status = 401
                   /\ \A i \in Holders(auth_answer'.input.sub) :
                        users'[i].refresh_token = None]_vars

\* C25: authenticate_user goes on to issue tokens and to write last_login_at
\* and the stored refresh token only when a user with the email exists, is
\* confirmed and the password verifies; otherwise it answers 401 at once and
\* leaves users as it was.
C25_LoginGating ==
    [][/\ \A s \in Sessions :
            (sessions[s] = None /\ sessions'[s] # None /\ sessions'[s].op = "login")
                => \E i \in Holders(sessions'[s].input.username) :
                        /\ users[i].confirmed
                        /\ verify_password(sessions'[s].input.password, users[i].password)
       /\ AnswersTo("login")
            => IF sessions' = sessions
               THEN auth_answer'.status = 401 /\ users' = users
               ELSE auth_answer'.status = 200]_vars

\* C26: no two users share an email, letter case apart, in any state that
\* signups, interleaved or not, can reach.
C26_UniqueEmail ==
    \A i, j \in 1..Len(users) :
        Lower(users[i].email) = Lower(users[j].email) => i = j

====
